---- MODULE Spec2Model ----
(***************************************************************************)
(* Model of rinsecrm/store-service: the gRPC request handler               *)
(* (StoreServiceServer) on top of the DynamoDB item store (DynamoStore).   *)
(*                                                                         *)
(* Every request is handled by a process p.  A handler validates the       *)
(* request, then runs the store operation; a store operation is a sequence *)
(* of backing-store calls (PutItem / GetItem / UpdateItem / Query), and    *)
(* each backing-store call is one atomic step, so that concurrent requests *)
(* interleave exactly at the backing-store calls.  Local computation       *)
(* between two backing-store calls belongs to the step of the call before  *)
(* it.                                                                     *)
(*                                                                         *)
(* Abstractions of values:                                                 *)
(*   - an item id is a number 1..MaxItemId standing for a string, in the   *)
(*     lexicographic order of the strings; 0 is the empty string;          *)
(*   - a string built by fmt.Sprintf(prefix + value) is <<prefix, value>>, *)
(*     and <<>> is the empty string in those positions;                    *)
(*   - a price is a whole number of 10^-7 units (float64 values with at    *)
(*     most seven decimals);                                               *)
(*   - an instant is a whole number of clock ticks, TicksPerSecond ticks   *)
(*     to a second; the zero time.Time is ZeroTime;                        *)
(*   - a DynamoDB attribute value is <<type, payload>>, type in S, N, L.   *)
(***************************************************************************)
EXTENDS Integers, Sequences, FiniteSets, TLC

VARIABLES table, calls, clock, generated, nops

vars == <<table, calls, clock, generated, nops>>

(***************************************************************************)
(* Bounds of the model.                                                    *)
(***************************************************************************)
MaxProcs == 2
MaxOps == 2
MaxItemId == 2
MaxTenant == 2
MaxClock == 3
TicksPerSecond == 2

Procs == 1..MaxProcs
ItemIds == 1..MaxItemId
TenantIds == 1..MaxTenant

(***************************************************************************)
(* Enumerations of internal/data/store.go.                                 *)
(***************************************************************************)
ItemCategoryUnspecified == 0
ItemCategoryElectronics == 1
ItemCategoryClothing == 2
ItemCategoryBooks == 3
ItemCategoryHome == 4
ItemCategorySports == 5

ItemStatusUnspecified == 0
ItemStatusActive == 1
ItemStatusInactive == 2
ItemStatusOutOfStock == 3
ItemStatusDiscontinued == 4

ZeroTime == 0

MaxInt32 == 2147483647
MinInt32 == -MaxInt32 - 1

\* int32 addition with wrap-around, as Go computes previousCount + quantityChange.
Add32(a, b) ==
  IF a > 0 /\ b > 0 /\ a > MaxInt32 - b THEN (a + MinInt32) + (b + MinInt32)
  ELSE IF a < 0 /\ b < 0 /\ a < MinInt32 - b THEN (a - MinInt32) + (b - MinInt32)
  ELSE a + b

(***************************************************************************)
(* The Item struct and its zero value.                                     *)
(***************************************************************************)
StringFields == {"ItemID", "Name", "Description", "SKU", "CreatedBy", "UpdatedBy", "PK", "SK"}
NumberFields == {"TenantID", "Price", "Category", "Status", "InventoryCount"}
TimeFields == {"CreatedAt", "UpdatedAt"}
ItemFields == StringFields \cup NumberFields \cup TimeFields \cup {"Tags"}

EmptyItem ==
  [PK |-> <<>>, SK |-> <<>>, ItemID |-> 0, TenantID |-> 0, Name |-> "",
   Description |-> "", Price |-> 0, Category |-> ItemCategoryUnspecified,
   Status |-> ItemStatusUnspecified, SKU |-> "", InventoryCount |-> 0,
   Tags |-> <<>>, CreatedAt |-> ZeroTime, UpdatedAt |-> ZeroTime,
   CreatedBy |-> "", UpdatedBy |-> ""]

\* variant: one partition for every tenant
PKOfShared(tenantID) == <<"TENANT#", 0>>

\* fmt.Sprintf("TENANT#%d", tenantID) and fmt.Sprintf("ITEM#%s", itemID)
PKOf(tenantID) == <<"TENANT#", tenantID>>
SKOf(itemID) == <<"ITEM#", itemID>>
KeyOf(tenantID, itemID) == <<PKOf(tenantID), SKOf(itemID)>>

(***************************************************************************)
(* Conversions.                                                            *)
(***************************************************************************)
\* now.Format(time.RFC3339): the instant cut to whole seconds.
FormatRFC3339(t) == t - (t % TicksPerSecond)

\* the attributevalue encoding of time.Time (RFC3339Nano): full precision.
FormatRFC3339Nano(t) == t

\* fmt.Sprintf("%f", price): six decimals, the seventh rounded.
SprintfF(price) ==
  IF price >= 0 THEN ((price + 5) \div 10) * 10 ELSE -(((-price) + 5) \div 10) * 10

\* variant: the float64 encoded with six decimals
FormatFloatSixDecimals(price) == SprintfF(price)

\* the attributevalue encoding of a float64: the shortest exact decimal.
FormatFloat(price) == price

EncodeTags(tags) == <<"L", [i \in 1..Len(tags) |-> <<"S", tags[i]>>]>>

EncodeField(item, a) ==
  IF a \in TimeFields THEN <<"S", FormatRFC3339Nano(item[a])>>
  ELSE IF a = "Tags" THEN EncodeTags(item.Tags)
  ELSE IF a = "Price" THEN <<"N", FormatFloat(item.Price)>>
  ELSE IF a \in NumberFields THEN <<"N", item[a]>>
  ELSE <<"S", item[a]>>

\* attributevalue.MarshalMap(item): every field, Tags left out when empty
\* (dynamodbav:"Tags,omitempty").
MarshalMap(item) ==
  [a \in (IF Len(item.Tags) = 0 THEN ItemFields \ {"Tags"} ELSE ItemFields)
     |-> EncodeField(item, a)]

ExpectedType(a) ==
  IF a = "Tags" THEN "L" ELSE IF a \in NumberFields THEN "N" ELSE "S"

FieldDecodes(av, a) ==
  /\ av[a][1] = ExpectedType(a)
  /\ a = "Tags" => \A i \in 1..Len(av[a][2]) : av[a][2][i][1] = "S"
  /\ a = "InventoryCount" => (av[a][2] >= MinInt32 /\ av[a][2] <= MaxInt32)

\* whether attributevalue.UnmarshalMap(av, &item) returns no error
Decodable(av) == \A a \in (DOMAIN av) \cap ItemFields : FieldDecodes(av, a)

DecodeField(av, a) ==
  IF a \notin DOMAIN av THEN EmptyItem[a]
  ELSE IF a = "Tags" THEN [i \in 1..Len(av[a][2]) |-> av[a][2][i][2]]
  ELSE av[a][2]

\* attributevalue.UnmarshalMap(av, &item) into a zero Item: absent attributes
\* keep their zero value.
UnmarshalMap(av) == [a \in ItemFields |-> DecodeField(av, a)]

(***************************************************************************)
(* The backing store (DynamoDB): table is a map from composite keys        *)
(* <<PK, SK>> to attribute maps.                                           *)
(***************************************************************************)
\* client.GetItem: the attribute map at the key, <<>> (result.Item == nil) if none
DynamoGetItem(tbl, key) == IF key \in DOMAIN tbl THEN tbl[key] ELSE <<>>

\* client.PutItem without a condition: insert or overwrite
DynamoPutItem(tbl, av) ==
  LET key == <<av.PK[2], av.SK[2]>>
  IN [k \in (DOMAIN tbl) \cup {key} |-> IF k = key THEN av ELSE tbl[k]]

KeyAttributes(key) == [PK |-> <<"S", key[1]>>, SK |-> <<"S", key[2]>>]

\* client.UpdateItem with a SET expression and no condition: the named
\* attributes are overwritten; a missing item is created from its key.
DynamoUpdateItem(tbl, key, sets) ==
  LET old == IF key \in DOMAIN tbl THEN tbl[key] ELSE KeyAttributes(key)
      new == [a \in (DOMAIN old) \cup (DOMAIN sets) |->
                IF a \in DOMAIN sets THEN sets[a] ELSE old[a]]
  IN [k \in (DOMAIN tbl) \cup {key} |-> IF k = key THEN new ELSE tbl[k]]

\* the ids stored in a tenant's partition under the ITEM# prefix
PartitionIds(tbl, tenantID) ==
  {k[2][2] : k \in {k \in DOMAIN tbl : k[1] = PKOf(tenantID) /\ k[2][1] = "ITEM#"}}

RECURSIVE Ascending(_)
Ascending(S) ==
  IF S = {} THEN <<>>
  ELSE LET m == CHOOSE x \in S : \A y \in S : x <= y
       IN <<m>> \o Ascending(S \ {m})

Min(a, b) == IF a <= b THEN a ELSE b

\* variant: ExclusiveStartKey is ignored, every query starts at the first record
DynamoQueryFromStart(tbl, tenantID, startSK, limit, lekAtEnd) ==
  LET sorted == Ascending(PartitionIds(tbl, tenantID))
      n == Min(limit, Len(sorted))
      page == SubSeq(sorted, 1, n)
      stopped == n >= 1 /\ (Len(sorted) > limit \/ (Len(sorted) = limit /\ lekAtEnd))
  IN [Items |-> [j \in 1..n |-> tbl[KeyOf(tenantID, page[j])]],
      LastEvaluatedKey |-> IF stopped THEN KeyAttributes(KeyOf(tenantID, page[n]))
                           ELSE <<>>]

\* client.Query: PK = :pk AND begins_with(SK, "ITEM#"), ascending sort key,
\* after ExclusiveStartKey when given, at most Limit records evaluated.
\* LastEvaluatedKey is the key of the last record evaluated when the Limit
\* stopped the query; when the Limit is reached on the last record of the
\* partition the backing store may or may not report one (lekAtEnd).
DynamoQuery(tbl, tenantID, startSK, limit, lekAtEnd) ==
  LET ids == {i \in PartitionIds(tbl, tenantID) : startSK = <<>> \/ i > startSK[2]}
      sorted == Ascending(ids)
      n == Min(limit, Len(sorted))
      page == SubSeq(sorted, 1, n)
      stopped == n >= 1 /\ (Len(sorted) > limit \/ (Len(sorted) = limit /\ lekAtEnd))
  IN [Items |-> [j \in 1..n |-> tbl[KeyOf(tenantID, page[j])]],
      LastEvaluatedKey |-> IF stopped THEN KeyAttributes(KeyOf(tenantID, page[n]))
                           ELSE <<>>]

(***************************************************************************)
(* Requests in flight.                                                     *)
(***************************************************************************)
NoReq ==
  [TenantId |-> 0, Id |-> 0, Name |-> "", Description |-> "", Price |-> 0,
   Category |-> 0, Status |-> 0, Sku |-> "", InventoryCount |-> 0, Tags |-> <<>>,
   By |-> "", QuantityChange |-> 0, PageSize |-> 0, PageToken |-> <<>>,
   SearchQuery |-> ""]

IdleCall ==
  [op |-> "none", pc |-> "idle", received |-> NoReq, req |-> NoReq, code |-> "none",
   err |-> "none",
   item |-> EmptyItem, previousCount |-> 0, newCount |-> 0, now |-> ZeroTime,
   wrote |-> 0,
   items |-> <<>>, nextPageToken |-> <<>>, totalCount |-> 0,
   seen |-> <<>>]

Free(p) == calls[p].pc \in {"idle", "done"}

\* a request accepted by the handler's validation, about to call the store:
\* received is the request as the caller sent it, req holds the arguments of
\* the store call the handler makes from it
AcceptConverted(p, op, received, req, pc) ==
  /\ calls' = [calls EXCEPT ![p] = [IdleCall EXCEPT !.op = op, !.pc = pc, !.req = req,
                                                    !.received = received,
                                                    !.now = clock]]
  /\ UNCHANGED <<table, clock, generated>>

\* a handler that passes the fields of the request on as they are
Accept(p, op, req, pc) == AcceptConverted(p, op, req, req, pc)

\* return nil, status.Error(codes.InvalidArgument, ...)
Reject(p, op, req) ==
  /\ calls' = [calls EXCEPT ![p] = [IdleCall EXCEPT !.op = op, !.pc = "done", !.req = req,
                                                    !.received = req,
                                                    !.code = "InvalidArgument"]]
  /\ UNCHANGED <<table, clock, generated>>

\* variant: insufficient inventory has a status of its own
CodeOfPrecondition(err) ==
  IF err = "none" THEN "OK"
  ELSE IF err = "ErrItemNotFound" THEN "NotFound"
  ELSE IF err = "insufficient inventory" THEN "FailedPrecondition"
  ELSE "Internal"

\* the handlers' mapping of a store error to a status code
CodeOf(err) ==
  IF err = "none" THEN "OK"
  ELSE IF err = "ErrItemNotFound" THEN "NotFound"
  ELSE "Internal"

\* the create and list handlers map every store error to Internal
CodeOfAny(err) == IF err = "none" THEN "OK" ELSE "Internal"

(***************************************************************************)
(* DynamoStore (internal/data/store.go).  ok is the outcome of the         *)
(* backing-store call of the step: FALSE when the call returns an error.   *)
(***************************************************************************)
\* variant: a missing record is returned as the zero Item, without an error
GetItemResultZero(tbl, tenantID, itemID, ok) ==
  LET key == KeyOf(tenantID, itemID)
  IN IF ~ok THEN [item |-> EmptyItem, err |-> "failed to get item"]
     ELSE IF DynamoGetItem(tbl, key) = <<>> THEN [item |-> EmptyItem, err |-> "none"]
     ELSE IF ~Decodable(tbl[key]) THEN [item |-> EmptyItem, err |-> "failed to unmarshal item"]
     ELSE [item |-> UnmarshalMap(tbl[key]), err |-> "none"]

\* DynamoStore.GetItem as a function of the table: the (Item, error) it returns
GetItemResult(tbl, tenantID, itemID, ok) ==
  LET key == KeyOf(tenantID, itemID)
  IN IF ~ok THEN [item |-> EmptyItem, err |-> "failed to get item"]
     ELSE IF DynamoGetItem(tbl, key) = <<>> THEN [item |-> EmptyItem, err |-> "ErrItemNotFound"]
     ELSE IF ~Decodable(tbl[key]) THEN [item |-> EmptyItem, err |-> "failed to unmarshal item"]
     ELSE [item |-> UnmarshalMap(tbl[key]), err |-> "none"]

\* variant: UpdatedAt stamped in whole seconds, as the update paths do
NewItemStampedToSeconds(req, itemID, now) ==
  [PK |-> PKOf(req.TenantId), SK |-> SKOf(itemID), ItemID |-> itemID,
   TenantID |-> req.TenantId, Name |-> req.Name, Description |-> req.Description,
   Price |-> req.Price, Category |-> req.Category, Status |-> ItemStatusActive,
   SKU |-> req.Sku, InventoryCount |-> req.InventoryCount, Tags |-> req.Tags,
   CreatedAt |-> now, UpdatedAt |-> FormatRFC3339(now), CreatedBy |-> req.By,
   UpdatedBy |-> req.By]

\* the Item built by DynamoStore.CreateItem
NewItem(req, itemID, now) ==
  [PK |-> PKOf(req.TenantId), SK |-> SKOf(itemID), ItemID |-> itemID,
   TenantID |-> req.TenantId, Name |-> req.Name, Description |-> req.Description,
   Price |-> req.Price, Category |-> req.Category, Status |-> ItemStatusActive,
   SKU |-> req.Sku, InventoryCount |-> req.InventoryCount, Tags |-> req.Tags,
   CreatedAt |-> now, UpdatedAt |-> now, CreatedBy |-> req.By, UpdatedBy |-> req.By]

\* variant: the status is left as it is
UpdateItemSetsKeepStatus(req, now) ==
  [Name |-> <<"S", req.Name>>, Description |-> <<"S", req.Description>>,
   Price |-> <<"N", SprintfF(req.Price)>>, Category |-> <<"N", req.Category>>,
   SKU |-> <<"S", req.Sku>>,
   InventoryCount |-> <<"N", req.InventoryCount>>, Tags |-> EncodeTags(req.Tags),
   UpdatedAt |-> <<"S", FormatRFC3339(now)>>, UpdatedBy |-> <<"S", req.By>>]

\* the SET expression of DynamoStore.UpdateItem
UpdateItemSets(req, now) ==
  [Name |-> <<"S", req.Name>>, Description |-> <<"S", req.Description>>,
   Price |-> <<"N", SprintfF(req.Price)>>, Category |-> <<"N", req.Category>>,
   Status |-> <<"N", req.Status>>, SKU |-> <<"S", req.Sku>>,
   InventoryCount |-> <<"N", req.InventoryCount>>, Tags |-> EncodeTags(req.Tags),
   UpdatedAt |-> <<"S", FormatRFC3339(now)>>, UpdatedBy |-> <<"S", req.By>>]

\* variant: the soft delete also clears the stock
DeleteItemSetsNoStock(now) ==
  [Status |-> <<"N", ItemStatusDiscontinued>>, UpdatedAt |-> <<"S", FormatRFC3339(now)>>,
   InventoryCount |-> <<"N", 0>>]

\* the SET expression of DynamoStore.DeleteItem
DeleteItemSets(now) ==
  [Status |-> <<"N", ItemStatusDiscontinued>>, UpdatedAt |-> <<"S", FormatRFC3339(now)>>]

\* variant: the status follows the count, out of stock at zero
UpdateInventorySetsStatus(newCount, updatedBy, now) ==
  [InventoryCount |-> <<"N", newCount>>, UpdatedAt |-> <<"S", FormatRFC3339(now)>>,
   UpdatedBy |-> <<"S", updatedBy>>,
   Status |-> <<"N", IF newCount = 0 THEN ItemStatusOutOfStock ELSE ItemStatusActive>>]

\* the SET expression of DynamoStore.UpdateInventory
UpdateInventorySets(newCount, updatedBy, now) ==
  [InventoryCount |-> <<"N", newCount>>, UpdatedAt |-> <<"S", FormatRFC3339(now)>>,
   UpdatedBy |-> <<"S", updatedBy>>]

\* variant: a hard delete, the record is removed
DeleteItemRemoves(tbl, key, now) == [k \in (DOMAIN tbl) \ {key} |-> tbl[k]]

\* the write DynamoStore.DeleteItem issues
DeleteItemWrite(tbl, key, now) == DynamoUpdateItem(tbl, key, DeleteItemSets(now))

\* variant: the quantity_change is added to the count stored at write time
UpdateInventoryWriteDelta(tbl, key, c, now) ==
  DynamoUpdateItem(tbl, key,
    UpdateInventorySets(Add32(UnmarshalMap(tbl[key]).InventoryCount, c.req.QuantityChange),
                        c.req.By, now))

\* the write DynamoStore.UpdateInventory issues
UpdateInventoryWriteTable(tbl, key, c, now) ==
  DynamoUpdateItem(tbl, key, UpdateInventorySets(c.newCount, c.req.By, now))

\* variant: the check of the new count is missing
InsufficientInventoryUnchecked(newCount) == FALSE

\* "Ensure inventory doesn't go negative"
InsufficientInventory(newCount) == newCount < 0

\* variant: the loop ends at the first record that does not decode
RECURSIVE FilterItemsBreak(_, _, _)
FilterItemsBreak(page, category, status) ==
  IF page = <<>> THEN <<>>
  ELSE LET av == Head(page)
       IN IF ~Decodable(av) THEN <<>>
          ELSE LET rest == FilterItemsBreak(Tail(page), category, status)
               IN IF category # ItemCategoryUnspecified /\ UnmarshalMap(av).Category # category
                    THEN rest
                  ELSE IF status # ItemStatusUnspecified /\ UnmarshalMap(av).Status # status
                    THEN rest
                  ELSE <<UnmarshalMap(av)>> \o rest

\* the filter loop of DynamoStore.ListItems over the fetched page
RECURSIVE FilterItems(_, _, _)
FilterItems(page, category, status) ==
  IF page = <<>> THEN <<>>
  ELSE LET rest == FilterItems(Tail(page), category, status)
           av == Head(page)
       IN IF ~Decodable(av) THEN rest
          ELSE IF category # ItemCategoryUnspecified /\ UnmarshalMap(av).Category # category
            THEN rest
          ELSE IF status # ItemStatusUnspecified /\ UnmarshalMap(av).Status # status
            THEN rest
          ELSE <<UnmarshalMap(av)>> \o rest

\* variant: the last evaluated key is dropped, no page has a successor
NextPageTokenDropped(lek) == <<>>

\* nextPageToken: the SK of result.LastEvaluatedKey, "" when there is none
NextPageToken(lek) == IF lek = <<>> THEN <<>> ELSE lek.SK[2]

\* variant: the token is the sort key of the last item returned
ListItemsResultTokenOfItems(result, category, status) ==
  LET items == FilterItems(result.Items, category, status)
  IN [items |-> items,
      nextPageToken |-> IF result.LastEvaluatedKey = <<>> \/ items = <<>> THEN <<>>
                        ELSE items[Len(items)].SK,
      totalCount |-> Len(items)]

\* variant: the count is the size of the fetched page
ListItemsResultPageCount(result, category, status) ==
  LET items == FilterItems(result.Items, category, status)
  IN [items |-> items, nextPageToken |-> NextPageToken(result.LastEvaluatedKey),
      totalCount |-> Len(result.Items)]

\* what DynamoStore.ListItems returns for a query result
ListItemsResult(result, category, status) ==
  LET items == FilterItems(result.Items, category, status)
  IN [items |-> items, nextPageToken |-> NextPageToken(result.LastEvaluatedKey),
      totalCount |-> Len(items)]

Done(p, c) ==
  calls' = [calls EXCEPT ![p] = [c EXCEPT !.pc = "done"]]

\* DynamoStore.CreateItem: uuid.New, time.Now, MarshalMap, PutItem
CreateItem(p, itemID, ok) ==
  LET c == calls[p]
      item == NewItem(c.req, itemID, c.now)
  IN /\ c.pc = "put"
     /\ \A k \in generated \cup DOMAIN table : k[2] # SKOf(itemID)
     /\ IF ok
        THEN /\ table' = DynamoPutItem(table, MarshalMap(item))
             /\ generated' = generated \cup {KeyOf(c.req.TenantId, itemID)}
             /\ Done(p, [c EXCEPT !.item = item, !.wrote = 1, !.code = CodeOfAny("none")])
        ELSE /\ Done(p, [c EXCEPT !.err = "failed to put item",
                                  !.code = CodeOfAny("failed to put item")])
             /\ UNCHANGED <<table, generated>>
     /\ UNCHANGED <<clock, nops>>

\* DynamoStore.GetItem
GetItem(p, ok) ==
  LET c == calls[p]
      r == GetItemResult(table, c.req.TenantId, c.req.Id, ok)
  IN /\ c.pc = "get"
     /\ Done(p, [c EXCEPT !.item = r.item, !.err = r.err, !.code = CodeOf(r.err)])
     /\ UNCHANGED <<table, clock, generated, nops>>

\* DynamoStore.UpdateItem, the write
UpdateItem(p, ok) ==
  LET c == calls[p]
      key == KeyOf(c.req.TenantId, c.req.Id)
  IN /\ c.pc = "update"
     /\ IF ok
        THEN /\ table' = DynamoUpdateItem(table, key, UpdateItemSets(c.req, c.now))
             /\ calls' = [calls EXCEPT ![p] = [c EXCEPT !.pc = "reread", !.wrote = 1]]
        ELSE /\ Done(p, [c EXCEPT !.err = "failed to update item",
                                  !.code = CodeOf("failed to update item")])
             /\ UNCHANGED table
     /\ UNCHANGED <<clock, generated, nops>>

\* DynamoStore.UpdateItem, "return s.GetItem(ctx, tenantID, itemID)"
UpdateItemReread(p, ok) ==
  LET c == calls[p]
      r == GetItemResult(table, c.req.TenantId, c.req.Id, ok)
  IN /\ c.pc = "reread"
     /\ c.op = "UpdateItem"
     /\ Done(p, [c EXCEPT !.item = r.item, !.err = r.err, !.code = CodeOf(r.err)])
     /\ UNCHANGED <<table, clock, generated, nops>>

\* DynamoStore.DeleteItem
DeleteItem(p, ok) ==
  LET c == calls[p]
      key == KeyOf(c.req.TenantId, c.req.Id)
  IN /\ c.pc = "delete"
     /\ IF ok
        THEN /\ table' = DeleteItemWrite(table, key, c.now)
             /\ Done(p, [c EXCEPT !.wrote = 1, !.code = CodeOf("none")])
        ELSE /\ Done(p, [c EXCEPT !.err = "failed to delete item",
                                  !.code = CodeOf("failed to delete item")])
             /\ UNCHANGED table
     /\ UNCHANGED <<clock, generated, nops>>

\* variant: the search query is applied to the names of the items
ListItemsSearching(p, ok, lekAtEnd) ==
  LET c == calls[p]
      result == DynamoQuery(table, c.req.TenantId, c.req.PageToken, c.req.PageSize, lekAtEnd)
      r == ListItemsResult(result, c.req.Category, c.req.Status)
      found == SelectSeq(r.items, LAMBDA it : c.req.SearchQuery = "" \/ it.Name = c.req.SearchQuery)
  IN /\ c.pc = "query"
     /\ IF ok
        THEN Done(p, [c EXCEPT !.items = found, !.nextPageToken = r.nextPageToken,
                               !.totalCount = Len(found), !.code = CodeOfAny("none")])
        ELSE Done(p, [c EXCEPT !.err = "failed to list items",
                               !.code = CodeOfAny("failed to list items")])
     /\ UNCHANGED <<table, clock, generated, nops>>

\* DynamoStore.ListItems
ListItems(p, ok, lekAtEnd) ==
  LET c == calls[p]
      result == DynamoQuery(table, c.req.TenantId, c.req.PageToken, c.req.PageSize, lekAtEnd)
      r == ListItemsResult(result, c.req.Category, c.req.Status)
  IN /\ c.pc = "query"
     /\ IF ok
        THEN Done(p, [c EXCEPT !.items = r.items, !.nextPageToken = r.nextPageToken,
                               !.totalCount = r.totalCount, !.code = CodeOfAny("none")])
        ELSE Done(p, [c EXCEPT !.err = "failed to list items",
                               !.code = CodeOfAny("failed to list items")])
     /\ UNCHANGED <<table, clock, generated, nops>>

\* DynamoStore.UpdateInventory: the first GetItem and the check of newCount
UpdateInventoryRead(p, ok) ==
  LET c == calls[p]
      r == GetItemResult(table, c.req.TenantId, c.req.Id, ok)
      previousCount == r.item.InventoryCount
      newCount == Add32(previousCount, c.req.QuantityChange)
  IN /\ c.pc = "read"
     /\ IF r.err # "none"
        THEN Done(p, [c EXCEPT !.err = r.err, !.code = CodeOf(r.err)])
        ELSE IF InsufficientInventory(newCount)
        THEN Done(p, [c EXCEPT !.previousCount = previousCount, !.newCount = newCount,
                               !.err = "insufficient inventory",
                               !.code = CodeOf("insufficient inventory")])
        ELSE calls' = [calls EXCEPT ![p] = [c EXCEPT !.pc = "write",
                                                     !.previousCount = previousCount,
                                                     !.newCount = newCount,
                                                     !.now = clock]]
     /\ UNCHANGED <<table, clock, generated, nops>>

\* DynamoStore.UpdateInventory: the UpdateItem of the new count
UpdateInventoryWrite(p, ok) ==
  LET c == calls[p]
      key == KeyOf(c.req.TenantId, c.req.Id)
  IN /\ c.pc = "write"
     /\ IF ok
        THEN /\ table' = UpdateInventoryWriteTable(table, key, c, c.now)
             /\ calls' = [calls EXCEPT ![p] = [c EXCEPT !.pc = "reread", !.wrote = 1]]
        ELSE /\ Done(p, [c EXCEPT !.err = "failed to update inventory",
                                  !.code = CodeOf("failed to update inventory")])
             /\ UNCHANGED table
     /\ UNCHANGED <<clock, generated, nops>>

\* DynamoStore.UpdateInventory: the GetItem after the write
UpdateInventoryReread(p, ok) ==
  LET c == calls[p]
      r == GetItemResult(table, c.req.TenantId, c.req.Id, ok)
  IN /\ c.pc = "reread"
     /\ c.op = "UpdateInventory"
     /\ Done(p, [c EXCEPT !.item = r.item, !.err = r.err, !.code = CodeOf(r.err)])
     /\ UNCHANGED <<table, clock, generated, nops>>

\* time passes: time.Now() reads clock.  A call's now is read in the step
\* before its write: when the handler accepts the request (CreateItem,
\* UpdateItem, DeleteItem) or when the first GetItem returns (UpdateInventory).
Tick ==
  /\ clock < MaxClock
  /\ clock' = clock + 1
  /\ UNCHANGED <<table, calls, generated, nops>>

(***************************************************************************)
(* StoreServiceServer: validation of the request, then the store call.      *)
(***************************************************************************)
\* protoToDataCategory / protoToDataStatus: unknown numbers become unspecified
protoToDataCategory(category) ==
  IF category \in ItemCategoryElectronics..ItemCategorySports THEN category
  ELSE ItemCategoryUnspecified

protoToDataStatus(status) ==
  IF status \in ItemStatusActive..ItemStatusDiscontinued THEN status
  ELSE ItemStatusUnspecified

ValidCreate(req) == ~(req.TenantId <= 0) /\ ~(req.Name = "") /\ ~(req.Price < 0)

ValidSingle(req) == ~(req.TenantId <= 0) /\ ~(req.Id = 0)

\* variant: the price of an update is not looked at
ValidUpdateAnyPrice(req) == ValidSingle(req) /\ ~(req.Name = "")

ValidUpdate(req) == ValidSingle(req) /\ ~(req.Name = "") /\ ~(req.Price < 0)

ServerCreateItem(p, req) ==
  /\ Free(p)
  /\ IF ValidCreate(req)
     THEN AcceptConverted(p, "CreateItem", req,
                          [req EXCEPT !.Category = protoToDataCategory(req.Category)], "put")
     ELSE Reject(p, "CreateItem", req)

ServerGetItem(p, req) ==
  /\ Free(p)
  /\ IF ValidSingle(req) THEN Accept(p, "GetItem", req, "get")
     ELSE Reject(p, "GetItem", req)

ServerUpdateItem(p, req) ==
  /\ Free(p)
  /\ IF ValidUpdate(req)
     THEN AcceptConverted(p, "UpdateItem", req,
                          [req EXCEPT !.Category = protoToDataCategory(req.Category),
                                      !.Status = protoToDataStatus(req.Status)], "update")
     ELSE Reject(p, "UpdateItem", req)

ServerDeleteItem(p, req) ==
  /\ Free(p)
  /\ IF ValidSingle(req) THEN Accept(p, "DeleteItem", req, "delete")
     ELSE Reject(p, "DeleteItem", req)

DefaultPageSize == 100
MaxPageSize == 1000

\* variant: the default without the cap
ClampPageSizeUncapped(pageSize) == IF pageSize <= 0 THEN DefaultPageSize ELSE pageSize

ClampPageSize(pageSize) ==
  IF pageSize <= 0 THEN DefaultPageSize
  ELSE IF pageSize > MaxPageSize THEN MaxPageSize
  ELSE pageSize

\* the arguments of store.ListItems the handler makes of a request
ListItemsArgs(req) ==
  [req EXCEPT !.PageSize = ClampPageSize(req.PageSize),
              !.Category = protoToDataCategory(req.Category),
              !.Status = protoToDataStatus(req.Status)]

ServerListItems(p, req) ==
  /\ Free(p)
  /\ IF ~(req.TenantId <= 0)
     THEN AcceptConverted(p, "ListItems", req, ListItemsArgs(req), "query")
     ELSE Reject(p, "ListItems", req)

ServerUpdateInventory(p, req) ==
  /\ Free(p)
  /\ IF ValidSingle(req) THEN Accept(p, "UpdateInventory", req, "read")
     ELSE Reject(p, "UpdateInventory", req)

\* dataToProtoCategory / dataToProtoStatus: unknown numbers become unspecified
dataToProtoCategory(category) ==
  IF category \in ItemCategoryElectronics..ItemCategorySports THEN category
  ELSE ItemCategoryUnspecified

dataToProtoStatus(status) ==
  IF status \in ItemStatusActive..ItemStatusDiscontinued THEN status
  ELSE ItemStatusUnspecified

dataToProtoItem(item) ==
  [Id |-> item.ItemID, TenantId |-> item.TenantID, Name |-> item.Name,
   Description |-> item.Description, Price |-> item.Price,
   Category |-> dataToProtoCategory(item.Category),
   Status |-> dataToProtoStatus(item.Status), Sku |-> item.SKU,
   InventoryCount |-> item.InventoryCount, Tags |-> item.Tags,
   CreatedAt |-> item.CreatedAt, UpdatedAt |-> item.UpdatedAt,
   CreatedBy |-> item.CreatedBy, UpdatedBy |-> item.UpdatedBy]

\* "return nil, status.Error(...)": the response of a handler that fails
NoResponse == <<>>

\* the response message the handler of a finished call returns to the caller
Response(c) ==
  IF c.code = "InvalidArgument" \/ c.err # "none" THEN NoResponse
  ELSE IF c.op = "DeleteItem" THEN [Success |-> TRUE]
  ELSE IF c.op = "ListItems"
    THEN [Items |-> [j \in 1..Len(c.items) |-> dataToProtoItem(c.items[j])],
          NextPageToken |-> c.nextPageToken, TotalCount |-> c.totalCount]
  ELSE IF c.op = "UpdateInventory"
    THEN [Item |-> dataToProtoItem(c.item), PreviousCount |-> c.previousCount]
  ELSE [Item |-> dataToProtoItem(c.item)]

(***************************************************************************)
(* The requests the model draws from.                                      *)
(***************************************************************************)
\* business fields of a create or update request
Fields(name, description, price, category, status, sku, inventoryCount, tags, by) ==
  [NoReq EXCEPT !.Name = name, !.Description = description, !.Price = price,
                !.Category = category, !.Status = status, !.Sku = sku,
                !.InventoryCount = inventoryCount, !.Tags = tags, !.By = by]

\* creates: a seven-decimal price and no tags; a negative inventory count, an
\* unknown category number and tags
CreateFields ==
  { Fields("widget", "", 1234567, ItemCategoryElectronics, 0, "W-1", 10, <<>>, "alice"),
    Fields("book", "a book", 19990000, 6, 0, "", -1, <<"sale", "new">>, "bob") }

\* updates: a seven-decimal price and no tags; an unknown status number, a
\* negative inventory count and a tag
UpdateFields ==
  { Fields("gadget", "renamed", 1234567, ItemCategoryClothing, ItemStatusInactive, "G-2", 5,
           <<>>, "carol"),
    Fields("book", "", 0, ItemCategoryBooks, 7, "", -2, <<"used">>, "bob") }

\* requests the validation refuses: no tenant, no name, a negative price, no id
NoName == Fields("", "no name", 10000000, ItemCategoryHome, ItemStatusActive, "N", 1, <<>>, "eve")
NegativePrice ==
  Fields("refund", "", -10000000, ItemCategoryHome, ItemStatusActive, "R", 1, <<>>, "eve")

QuantityChanges == {MinInt32, -15, 5}

CreateRequests ==
  {[f EXCEPT !.TenantId = t] : t \in TenantIds, f \in CreateFields}
  \cup {[f EXCEPT !.TenantId = 0] : f \in CreateFields}
  \cup {[f EXCEPT !.TenantId = 1] : f \in {NoName, NegativePrice}}

SingleRequests ==
  {[NoReq EXCEPT !.TenantId = t, !.Id = i] : t \in TenantIds, i \in ItemIds}
  \cup {[NoReq EXCEPT !.TenantId = 0, !.Id = 1], [NoReq EXCEPT !.TenantId = 1, !.Id = 0]}

UpdateRequests ==
  {[f EXCEPT !.TenantId = t, !.Id = i] : t \in TenantIds, i \in ItemIds, f \in UpdateFields}
  \cup {[f EXCEPT !.TenantId = 1, !.Id = 1] : f \in {NoName, NegativePrice}}
  \cup {[f EXCEPT !.TenantId = 0, !.Id = 1] : f \in UpdateFields}
  \cup {[f EXCEPT !.TenantId = 1, !.Id = 0] : f \in UpdateFields}

ListRequests ==
  {[NoReq EXCEPT !.TenantId = t, !.PageSize = n] : t \in 0..MaxTenant, n \in {0, 1}}
  \cup {[NoReq EXCEPT !.TenantId = t, !.PageSize = 1, !.PageToken = SKOf(1)] : t \in TenantIds}

InventoryRequests ==
  {[r EXCEPT !.QuantityChange = q, !.By = "dave"] : r \in SingleRequests, q \in QuantityChanges}

(***************************************************************************)
(* The service: an empty table, requests of every kind.                    *)
(***************************************************************************)
Init ==
  /\ table = <<>>
  /\ calls = [p \in Procs |-> IdleCall]
  /\ clock = TicksPerSecond
  /\ generated = {}
  /\ nops = 0

\* Requests are served one at a time here, by one process: the store calls of
\* one request are not interleaved with those of another.  Interleaved
\* requests are the subject of SpecInventory below.
Serial == CHOOSE p \in Procs : \A q \in Procs : p <= q

\* the model handles at most MaxOps requests
Metered == nops < MaxOps /\ nops' = nops + 1

Next ==
  \/ Metered /\ \E req \in CreateRequests : ServerCreateItem(Serial, req)
  \/ Metered /\ \E req \in SingleRequests : ServerGetItem(Serial, req)
  \/ Metered /\ \E req \in UpdateRequests : ServerUpdateItem(Serial, req)
  \/ Metered /\ \E req \in SingleRequests : ServerDeleteItem(Serial, req)
  \/ Metered /\ \E req \in ListRequests : ServerListItems(Serial, req)
  \/ Metered /\ \E req \in InventoryRequests : ServerUpdateInventory(Serial, req)
  \/ \E p \in Procs, i \in ItemIds, ok \in BOOLEAN : CreateItem(p, i, ok)
  \/ \E p \in Procs, ok \in BOOLEAN : GetItem(p, ok)
  \/ \E p \in Procs, ok \in BOOLEAN : UpdateItem(p, ok)
  \/ \E p \in Procs, ok \in BOOLEAN : UpdateItemReread(p, ok)
  \/ \E p \in Procs, ok \in BOOLEAN : DeleteItem(p, ok)
  \/ \E p \in Procs, ok \in BOOLEAN, lekAtEnd \in BOOLEAN : ListItems(p, ok, lekAtEnd)
  \/ \E p \in Procs, ok \in BOOLEAN : UpdateInventoryRead(p, ok)
  \/ \E p \in Procs, ok \in BOOLEAN : UpdateInventoryWrite(p, ok)
  \/ \E p \in Procs, ok \in BOOLEAN : UpdateInventoryReread(p, ok)
  \/ Tick

Spec == Init /\ [][Next]_vars

(***************************************************************************)
(* Inventory adjustment: one item exists, as CreateItem stored it, and     *)
(* only UpdateInventory requests arrive, MaxProcs of them at a time.       *)
(***************************************************************************)
MaxAdjustments == 2

InitialCounts == {-1, 0, 20, MaxInt32}

AdjustChanges == {MinInt32, -15, 0, 5, MaxInt32}

StockedItem(inventoryCount) ==
  LET f == CHOOSE f \in CreateFields : f.Name = "widget"
  IN NewItem([f EXCEPT !.TenantId = 1, !.InventoryCount = inventoryCount], 1, TicksPerSecond)

\* adjustments of the stocked item, and one of an item that does not exist
AdjustRequests ==
  {[NoReq EXCEPT !.TenantId = 1, !.Id = 1, !.QuantityChange = q, !.By = "dave"] :
     q \in AdjustChanges}
  \cup {[NoReq EXCEPT !.TenantId = 1, !.Id = 2, !.QuantityChange = 5, !.By = "dave"]}

InitInventory ==
  /\ \E c0 \in InitialCounts : table = DynamoPutItem(<<>>, MarshalMap(StockedItem(c0)))
  /\ calls = [p \in Procs |-> IdleCall]
  /\ clock = TicksPerSecond
  /\ generated = {KeyOf(1, 1)}
  /\ nops = 0

MeteredAdjustment == nops < MaxAdjustments /\ nops' = nops + 1

\* processes are interchangeable: a request is taken by the first free one
LowestFree(p) == Free(p) /\ \A q \in Procs : q < p => ~Free(q)

NextInventory ==
  \/ MeteredAdjustment /\ \E p \in Procs, req \in AdjustRequests :
       LowestFree(p) /\ ServerUpdateInventory(p, req)
  \/ \E p \in Procs, ok \in BOOLEAN : UpdateInventoryRead(p, ok)
  \/ \E p \in Procs, ok \in BOOLEAN : UpdateInventoryWrite(p, ok)
  \/ \E p \in Procs, ok \in BOOLEAN : UpdateInventoryReread(p, ok)

SpecInventory == InitInventory /\ [][NextInventory]_vars

(***************************************************************************)
(* Listing: the table is populated and does not change; ListItems requests *)
(* arrive one at a time.  A stored record is an item as CreateItem stored  *)
(* it, that item after DeleteItem, an item after UpdateItem, or a record   *)
(* another writer left with a Category that is not a number, which does    *)
(* not decode.                                                             *)
(***************************************************************************)
MaxListed == 3

ListedIds == 1..MaxListed

ListedRecords(tenantID, itemID) ==
  LET f == CHOOSE f \in CreateFields : f.Name = "widget"
      u == CHOOSE u \in UpdateFields : u.Name = "book"
      created == MarshalMap(NewItem([f EXCEPT !.TenantId = tenantID], itemID, TicksPerSecond))
      key == KeyOf(tenantID, itemID)
      one == DynamoPutItem(<<>>, created)
      update == [u EXCEPT !.Status = protoToDataStatus(u.Status)]
  IN { created,
       DeleteItemWrite(one, key, TicksPerSecond)[key],
       DynamoUpdateItem(one, key, UpdateItemSets(update, TicksPerSecond))[key],
       [created EXCEPT !.Category = <<"S", "electronics">>] }

\* the tables over a set of keys in which every key holds a record of the
\* kinds above or nothing
RECURSIVE ListedTables(_)
ListedTables(keys) ==
  IF keys = {} THEN {<<>>}
  ELSE LET k == CHOOSE k \in keys : TRUE
           rest == ListedTables(keys \ {k})
       IN rest \cup {DynamoPutItem(t, av) : t \in rest, av \in ListedRecords(k[1], k[2])}

ListingRequests ==
  {[NoReq EXCEPT !.TenantId = 1, !.PageSize = n, !.Category = c, !.Status = st,
                 !.PageToken = tok] :
     n \in {0, 1, 2},
     c \in {ItemCategoryUnspecified, ItemCategoryElectronics, ItemCategoryBooks},
     st \in {ItemStatusUnspecified, ItemStatusActive, ItemStatusDiscontinued},
     tok \in {<<>>, SKOf(1), SKOf(2)}}
  \cup {[NoReq EXCEPT !.TenantId = t, !.PageSize = 1001] : t \in {0, 2}}

\* listings with a search query: one that names a stored item and one that
\* names none
SearchRequests ==
  {[NoReq EXCEPT !.TenantId = 1, !.PageSize = n, !.SearchQuery = q] :
     n \in {1, 2}, q \in {"widget", "no such item"}}

InitList ==
  /\ \E t \in ListedTables({<<1, i>> : i \in ListedIds}) :
       table = DynamoPutItem(t, CHOOSE av \in ListedRecords(2, 2) : av.Status[2] = ItemStatusActive
                                                                   /\ av.Category[1] = "N")
  /\ calls = [p \in Procs |-> IdleCall]
  /\ clock = TicksPerSecond
  /\ generated = {}
  /\ nops = 0

\* the response is sent: the process is ready for the next request
Respond(p) ==
  /\ calls[p].pc = "done"
  /\ calls' = [calls EXCEPT ![p] = IdleCall]
  /\ UNCHANGED <<table, clock, generated, nops>>

NextList ==
  \/ /\ calls[1].pc = "idle"
     /\ nops' = nops
     /\ \E req \in ListingRequests \cup SearchRequests : ServerListItems(1, req)
  \/ \E ok \in BOOLEAN, lekAtEnd \in BOOLEAN : ListItems(1, ok, lekAtEnd)
  \/ Respond(1)

SpecList == InitList /\ [][NextList]_vars

(***************************************************************************)
(* Page sizes: ListItems requests with page sizes over the int32 range,    *)
(* around the default and the cap, on the tables of two records.           *)
(***************************************************************************)
PageSizes == {MinInt32, -1, 0, 1, 2, 99, 100, 101, 999, 1000, 1001, MaxInt32}

PageSizeRequests ==
  {[NoReq EXCEPT !.TenantId = t, !.PageSize = n] : t \in {0, 1}, n \in PageSizes}

InitPageSize ==
  /\ table \in ListedTables({<<1, 1>>, <<1, 2>>})
  /\ calls = [p \in Procs |-> IdleCall]
  /\ clock = TicksPerSecond
  /\ generated = {}
  /\ nops = 0

NextPageSize ==
  \/ /\ calls[Serial].pc = "idle"
     /\ nops' = nops
     /\ \E req \in PageSizeRequests : ServerListItems(Serial, req)
  \/ \E ok \in BOOLEAN, lekAtEnd \in BOOLEAN : ListItems(Serial, ok, lekAtEnd)
  \/ Respond(Serial)

SpecPageSize == InitPageSize /\ [][NextPageSize]_vars

(***************************************************************************)
(* Races: one item exists, as CreateItem stored it, and at most one        *)
(* UpdateItem, one DeleteItem and one UpdateInventory request on it        *)
(* arrive, each served by a process of its own, MaxProcs of them at a      *)
(* time, interleaved at their backing-store calls.                         *)
(***************************************************************************)
RaceUpdateRequests == {[f EXCEPT !.TenantId = 1, !.Id = 1] : f \in UpdateFields}

RaceDeleteRequests == {[NoReq EXCEPT !.TenantId = 1, !.Id = 1]}

RaceInventoryRequests ==
  {[NoReq EXCEPT !.TenantId = 1, !.Id = 1, !.QuantityChange = 5, !.By = "dave"]}

\* the first process that has served no request takes the request op, of
\* which there is one only
Arrives(p, op) ==
  /\ calls[p].pc = "idle"
  /\ \A q \in Procs : q < p => calls[q].pc # "idle"
  /\ \A q \in Procs : calls[q].op # op
  /\ nops' = nops

NextRace ==
  \/ \E p \in Procs, req \in RaceUpdateRequests :
       Arrives(p, "UpdateItem") /\ ServerUpdateItem(p, req)
  \/ \E p \in Procs, req \in RaceDeleteRequests :
       Arrives(p, "DeleteItem") /\ ServerDeleteItem(p, req)
  \/ \E p \in Procs, req \in RaceInventoryRequests :
       Arrives(p, "UpdateInventory") /\ ServerUpdateInventory(p, req)
  \/ \E p \in Procs, ok \in BOOLEAN : UpdateItem(p, ok)
  \/ \E p \in Procs, ok \in BOOLEAN : UpdateItemReread(p, ok)
  \/ \E p \in Procs, ok \in BOOLEAN : DeleteItem(p, ok)
  \/ \E p \in Procs, ok \in BOOLEAN : UpdateInventoryRead(p, ok)
  \/ \E p \in Procs, ok \in BOOLEAN : UpdateInventoryWrite(p, ok)
  \/ \E p \in Procs, ok \in BOOLEAN : UpdateInventoryReread(p, ok)
  \/ Tick

SpecRace == InitInventory /\ [][NextRace]_vars

(***************************************************************************)
(* Partial updates: two items exist, as CreateItem stored them, and one    *)
(* DeleteItem and one UpdateInventory request arrive, for those items or   *)
(* for an item that does not exist, interleaved at their backing-store     *)
(* calls.                                                                  *)
(***************************************************************************)
ShelvedItem ==
  LET f == CHOOSE f \in CreateFields : f.Name = "book"
  IN NewItem([f EXCEPT !.TenantId = 1, !.InventoryCount = 3], 2, TicksPerSecond)

InitFrame ==
  /\ table = DynamoPutItem(DynamoPutItem(<<>>, MarshalMap(StockedItem(20))),
                           MarshalMap(ShelvedItem))
  /\ calls = [p \in Procs |-> IdleCall]
  /\ clock = TicksPerSecond
  /\ generated = {KeyOf(1, 1), KeyOf(1, 2)}
  /\ nops = 0

FrameDeleteRequests ==
  {[NoReq EXCEPT !.TenantId = t, !.Id = i] : t \in TenantIds, i \in ItemIds}

FrameInventoryRequests ==
  {[r EXCEPT !.QuantityChange = q, !.By = "dave"] : r \in FrameDeleteRequests, q \in {-15, 5}}

NextFrame ==
  \/ \E p \in Procs, req \in FrameDeleteRequests :
       Arrives(p, "DeleteItem") /\ ServerDeleteItem(p, req)
  \/ \E p \in Procs, req \in FrameInventoryRequests :
       Arrives(p, "UpdateInventory") /\ ServerUpdateInventory(p, req)
  \/ \E p \in Procs, ok \in BOOLEAN : DeleteItem(p, ok)
  \/ \E p \in Procs, ok \in BOOLEAN : UpdateInventoryRead(p, ok)
  \/ \E p \in Procs, ok \in BOOLEAN : UpdateInventoryWrite(p, ok)
  \/ \E p \in Procs, ok \in BOOLEAN : UpdateInventoryReread(p, ok)
  \/ Tick

SpecFrame == InitFrame /\ [][NextFrame]_vars

(***************************************************************************)
(* Traversal: a caller lists a tenant page by page on a table that does    *)
(* not change, starting with an empty page_token and sending each          *)
(* next_page_token it gets as the page_token of its next request.  seen    *)
(* holds the items of the pages before the current one.                    *)
(***************************************************************************)
TraversalRequests ==
  {[NoReq EXCEPT !.TenantId = 1, !.PageSize = n, !.Category = c, !.Status = st] :
     n \in {1, 2},
     c \in {ItemCategoryUnspecified, ItemCategoryElectronics, ItemCategoryBooks},
     st \in {ItemStatusUnspecified, ItemStatusActive, ItemStatusDiscontinued}}

StartTraversal(p) ==
  /\ calls[p].pc = "idle"
  /\ \E req \in TraversalRequests : ServerListItems(p, req)
  /\ nops' = nops

\* the caller's next request: the same request with the token returned
FollowToken(p) ==
  LET c == calls[p]
      req == [c.received EXCEPT !.PageToken = c.nextPageToken]
  IN /\ c.op = "ListItems" /\ c.pc = "done" /\ c.code = "OK"
     /\ c.nextPageToken # <<>>
     /\ ~(req.TenantId <= 0)
     /\ calls' = [calls EXCEPT ![p] = [IdleCall EXCEPT !.op = "ListItems", !.pc = "query",
                                                       !.received = req,
                                                       !.req = ListItemsArgs(req),
                                                       !.now = clock,
                                                       !.seen = c.seen \o c.items]]
     /\ UNCHANGED <<table, clock, generated, nops>>

NextTraverse ==
  \/ StartTraversal(Serial)
  \/ \E ok \in BOOLEAN, lekAtEnd \in BOOLEAN : ListItems(Serial, ok, lekAtEnd)
  \/ FollowToken(Serial)

\* the caller goes on as long as it has a request to send or to wait for
SpecTraverse == InitList /\ [][NextTraverse]_vars /\ WF_vars(NextTraverse)

(***************************************************************************)
(* Properties.                                                             *)
(***************************************************************************)
\* the inventory_count a GetItem reads at a key
StoredCount(tbl, key) == UnmarshalMap(tbl[key]).InventoryCount

\* a + b < 0 over the integers, for a and b in the int32 range
SumNegative(a, b) == IF b >= 0 THEN a < -b ELSE a <= -(b + 1)

CallKey(c) == KeyOf(c.req.TenantId, c.req.Id)

\* C1: under UpdateInventory requests alone, interleaved at their backing-store
\* calls, no step takes an item whose persisted inventory_count is >= 0 to a
\* negative persisted inventory_count (so from a count >= 0 it is >= 0 forever).
C1_NonNegativeUnderConcurrentAdjustment ==
  [][\A k \in DOMAIN table :
       StoredCount(table, k) >= 0 => (k \in DOMAIN table' /\ StoredCount(table', k) >= 0)]_vars

\* two adjustments in flight on the same item: one has written, the other has
\* read the same count before that write and passed its check
C1_Witness ==
  \E p1, p2 \in Procs :
    /\ p1 # p2
    /\ calls[p1].op = "UpdateInventory" /\ calls[p2].op = "UpdateInventory"
    /\ CallKey(calls[p1]) = CallKey(calls[p2])
    /\ calls[p1].wrote = 1
    /\ calls[p2].pc = "write"
    /\ calls[p1].previousCount = calls[p2].previousCount
    /\ calls[p1].previousCount >= 0
    /\ calls[p1].req.QuantityChange < 0
    /\ StoredCount(table, CallKey(calls[p1])) >= 0

\* C2 (as claimed): every stored item record has inventory_count >= 0.
C2_InventoryNeverNegative ==
  \A k \in DOMAIN table : Decodable(table[k]) => StoredCount(table, k) >= 0

\* C3 (as claimed): an UpdateInventory that reads previous_count from an
\* existing item with previous_count + quantity_change < 0 ends there with the
\* insufficient-inventory error, returns previous_count, has issued no write,
\* and leaves the table as it was.
C3_InsufficientInventoryRejected ==
  [][\A p \in Procs :
       LET c == calls[p]
           k == CallKey(c)
       IN (/\ c.pc = "read"
           /\ calls'[p].pc # "read"
           /\ calls'[p].err # "failed to get item"
           /\ k \in DOMAIN table
           /\ Decodable(table[k])
           /\ SumNegative(StoredCount(table, k), c.req.QuantityChange))
          => (/\ calls'[p].pc = "done"
              /\ calls'[p].err = "insufficient inventory"
              /\ calls'[p].item = EmptyItem
              /\ calls'[p].previousCount = StoredCount(table, k)
              /\ calls'[p].wrote = 0
              /\ table' = table)]_vars

\* C4: the write of an UpdateInventory stores the count its own read saw plus
\* its own quantity_change, whatever the item holds by then: the last writer
\* wins.
C4_LastWriterWins ==
  [][\A p \in Procs :
       (calls[p].op = "UpdateInventory" /\ calls[p].pc = "write" /\ calls'[p].pc = "reread")
       => StoredCount(table', CallKey(calls[p]))
            = Add32(calls[p].previousCount, calls[p].req.QuantityChange)]_vars

\* two adjustments and nothing else: both read the same count, both answer OK,
\* and the persisted count holds one quantity_change only
C4_Witness ==
  \E p1, p2 \in Procs :
    /\ p1 # p2
    /\ nops = 2
    /\ calls[p1].op = "UpdateInventory" /\ calls[p2].op = "UpdateInventory"
    /\ calls[p1].pc = "done" /\ calls[p2].pc = "done"
    /\ calls[p1].code = "OK" /\ calls[p2].code = "OK"
    /\ CallKey(calls[p1]) = CallKey(calls[p2])
    /\ calls[p1].previousCount = calls[p2].previousCount
    /\ calls[p1].req.QuantityChange = 5 /\ calls[p2].req.QuantityChange = -15
    /\ StoredCount(table, CallKey(calls[p1])) = calls[p1].previousCount - 15
    /\ StoredCount(table, CallKey(calls[p1])) # calls[p1].previousCount + 5 - 15

\* C5 (as claimed): GetItem of a key no CreateItem has produced fails with
\* ItemNotFound.
C5_NeverCreatedIsNotFound ==
  \A t \in TenantIds, i \in ItemIds :
    KeyOf(t, i) \notin generated => GetItemResult(table, t, i, TRUE).err = "ErrItemNotFound"

\* C6: right after a successful DeleteItem of an existing item, a GetItem the
\* backing store answers returns the item with status discontinued.
C6_SoftDelete ==
  [][\A p \in Procs :
       LET c == calls[p]
       IN (/\ c.pc = "delete"
           /\ calls'[p].pc = "done"
           /\ calls'[p].err = "none"
           /\ CallKey(c) \in DOMAIN table)
          => LET r == GetItemResult(table', c.req.TenantId, c.req.Id, TRUE)
             IN r.err = "none" /\ r.item.Status = ItemStatusDiscontinued]_vars

\* an item CreateItem stored as active has been deleted and reads discontinued
C6_Witness ==
  \E p \in Procs :
    /\ calls[p].op = "DeleteItem" /\ calls[p].pc = "done" /\ calls[p].code = "OK"
    /\ CallKey(calls[p]) \in generated
    /\ GetItemResult(table, calls[p].req.TenantId, calls[p].req.Id, TRUE).item.Status
         = ItemStatusDiscontinued
    /\ GetItemResult(table, calls[p].req.TenantId, calls[p].req.Id, TRUE).item.Name # ""

\* C7: no step that changes the table removes a record: the stored keys only
\* grow, and a GetItem that does not fail with ItemNotFound never does
\* afterwards.
C7_NoHardDelete ==
  [][table' # table =>
       /\ \A k \in DOMAIN table : k \in DOMAIN table'
       /\ \A t \in TenantIds, i \in ItemIds :
            (KeyOf(t, i) \in DOMAIN table
             /\ GetItemResult(table, t, i, TRUE).err # "ErrItemNotFound")
            => GetItemResult(table', t, i, TRUE).err # "ErrItemNotFound"]_vars

\* a record is still stored after a DeleteItem on its key has succeeded
C7_Witness ==
  \E p \in Procs :
    /\ calls[p].op = "DeleteItem" /\ calls[p].pc = "done" /\ calls[p].code = "OK"
    /\ CallKey(calls[p]) \in DOMAIN table
    /\ nops = MaxOps

\* C8: the item a successful CreateItem returns, and the record it stored, have
\* status active, created_at = updated_at and updated_by = created_by.
C8_CreatedActive ==
  [][\A p \in Procs :
       (calls[p].pc = "put" /\ calls'[p].pc = "done" /\ calls'[p].err = "none")
       => LET it == calls'[p].item
              k == KeyOf(it.TenantID, it.ItemID)
          IN /\ it.Status = ItemStatusActive
             /\ it.CreatedAt = it.UpdatedAt
             /\ it.UpdatedBy = it.CreatedBy
             /\ it.CreatedBy = calls[p].req.By
             /\ k \in DOMAIN table'
             /\ Decodable(table'[k])
             /\ UnmarshalMap(table'[k]).Status = ItemStatusActive
             /\ UnmarshalMap(table'[k]).CreatedAt = UnmarshalMap(table'[k]).UpdatedAt
             /\ UnmarshalMap(table'[k]).UpdatedBy = UnmarshalMap(table'[k]).CreatedBy]_vars

\* a create has succeeded at an instant that is not a whole second
C8_Witness ==
  \E p \in Procs :
    /\ calls[p].op = "CreateItem" /\ calls[p].pc = "done" /\ calls[p].code = "OK"
    /\ calls[p].item.CreatedAt % TicksPerSecond # 0
    /\ calls[p].item.Status = ItemStatusActive

\* C9: right after a successful CreateItem, a GetItem the backing store answers
\* on the returned (tenant_id, item_id) returns the submitted name,
\* description, price, category, sku, inventory_count and tags, and the same
\* tenant_id and item_id.
C9_CreateGetRoundTrip ==
  [][\A p \in Procs :
       (calls[p].pc = "put" /\ calls'[p].pc = "done" /\ calls'[p].err = "none")
       => LET req == calls[p].req
              it == calls'[p].item
              r == GetItemResult(table', it.TenantID, it.ItemID, TRUE)
          IN /\ r.err = "none"
             /\ r.item.Name = req.Name
             /\ r.item.Description = req.Description
             /\ r.item.Price = req.Price
             /\ r.item.Category = req.Category
             /\ r.item.SKU = req.Sku
             /\ r.item.InventoryCount = req.InventoryCount
             /\ r.item.Tags = req.Tags
             /\ r.item.TenantID = req.TenantId
             /\ r.item.ItemID = it.ItemID]_vars

\* a create with no tags and a seven-decimal price has succeeded, its record
\* reads back with no tags, and a create with two tags has succeeded after it
C9_Witness ==
  \E p \in Procs, k \in generated :
    /\ calls[p].op = "CreateItem" /\ calls[p].pc = "done" /\ calls[p].code = "OK"
    /\ Len(calls[p].req.Tags) = 2
    /\ GetItemResult(table, calls[p].item.TenantID, calls[p].item.ItemID, TRUE).item.Tags
         = calls[p].req.Tags
    /\ k # KeyOf(calls[p].item.TenantID, calls[p].item.ItemID)
    /\ k \in DOMAIN table
    /\ "Tags" \notin DOMAIN table[k]
    /\ UnmarshalMap(table[k]).Price % 10 # 0
    /\ UnmarshalMap(table[k]).Tags = <<>>

\* the records a query fetches for a ListItems request
FetchedPage(tbl, req) ==
  DynamoQuery(tbl, req.TenantId, req.PageToken, req.PageSize, TRUE).Items

PassesFilters(av, req) ==
  /\ Decodable(av)
  /\ (req.Category = ItemCategoryUnspecified \/ UnmarshalMap(av).Category = req.Category)
  /\ (req.Status = ItemStatusUnspecified \/ UnmarshalMap(av).Status = req.Status)

\* C10: a successful ListItems returns exactly the decodable records of the
\* fetched page that pass the category and status filters (unspecified is no
\* filter), in page order, and returned_count is the length of that sequence.
C10_ListFiltering ==
  [][\A p \in Procs :
       (calls[p].pc = "query" /\ calls'[p].pc = "done" /\ calls'[p].err = "none")
       => LET req == calls[p].req
              kept == SelectSeq(FetchedPage(table, req), LAMBDA av : PassesFilters(av, req))
          IN /\ calls'[p].items = [j \in 1..Len(kept) |-> UnmarshalMap(kept[j])]
             /\ calls'[p].totalCount = Len(calls'[p].items)]_vars

\* a filtered listing of a page of two records has returned one item: fewer
\* than the page holds
C10_Witness ==
  \E p \in Procs :
    /\ calls[p].op = "ListItems" /\ calls[p].pc = "done" /\ calls[p].code = "OK"
    /\ calls[p].req.Category # ItemCategoryUnspecified
    /\ calls[p].req.Status # ItemStatusUnspecified
    /\ Len(FetchedPage(table, calls[p].req)) = 2
    /\ calls[p].totalCount = 1
    /\ Len(calls[p].items) = 1

\* the ids of the tenant's records after the resume point of a request
ResumeIds(tbl, req) ==
  {i \in PartitionIds(tbl, req.TenantId) : req.PageToken = <<>> \/ i > req.PageToken[2]}

\* those of them that decode
DecodableIds(tbl, req) ==
  {i \in ResumeIds(tbl, req) : Decodable(tbl[KeyOf(req.TenantId, i)])}

\* an unfiltered ListItems with page_size >= 1 returns
UnfilteredPage(p) ==
  /\ calls[p].pc = "query" /\ calls'[p].pc = "done" /\ calls'[p].err = "none"
  /\ calls[p].received.PageSize >= 1
  /\ calls[p].req.Category = ItemCategoryUnspecified
  /\ calls[p].req.Status = ItemStatusUnspecified

\* it returns min(k, n) items, and a token when n > k
PageShape(p) ==
  LET k == calls[p].req.PageSize
      n == Cardinality(DecodableIds(table, calls[p].req))
  IN /\ Len(calls'[p].items) = Min(k, n)
     /\ n > k => calls'[p].nextPageToken # <<>>

SameExcept(av1, av2, names) ==
  /\ (DOMAIN av1) \ names = (DOMAIN av2) \ names
  /\ \A a \in (DOMAIN av1) \ names : av1[a] = av2[a]

\* C12: an UpdateInventory with quantity_change 0 on an existing item with
\* count >= 0, the backing store answering, passes the check with
\* previous_count the stored count; its write, the count not having changed
\* since its read, changes nothing of the record but UpdatedAt and UpdatedBy;
\* its re-read returns OK with that previous_count and the same count.  No
\* other step of the call changes the table.
C12_ZeroChangeIdempotent ==
  [][\A p \in Procs :
       LET c == calls[p]
           k == CallKey(c)
       IN (/\ c.op = "UpdateInventory"
           /\ c.req.QuantityChange = 0
           /\ calls'[p] # c
           /\ k \in DOMAIN table
           /\ Decodable(table[k]))
          => /\ (c.pc = "read" /\ calls'[p].err # "failed to get item"
                   /\ StoredCount(table, k) >= 0)
                => /\ calls'[p].pc = "write"
                   /\ calls'[p].previousCount = StoredCount(table, k)
                   /\ table' = table
             /\ (c.pc = "write" /\ calls'[p].pc = "reread"
                   /\ StoredCount(table, k) = c.previousCount)
                => /\ SameExcept(table[k], table'[k], {"UpdatedAt", "UpdatedBy"})
                   /\ StoredCount(table', k) = StoredCount(table, k)
                   /\ \A k2 \in DOMAIN table' : k2 # k => (k2 \in DOMAIN table
                                                          /\ table'[k2] = table[k2])
             /\ (c.pc = "write" /\ calls'[p].pc = "done") => table' = table
             /\ (c.pc = "reread" /\ calls'[p].err = "none")
                => /\ calls'[p].pc = "done"
                   /\ calls'[p].code = "OK"
                   /\ calls'[p].previousCount = c.previousCount
                   /\ calls'[p].item.InventoryCount = StoredCount(table, k)
                   /\ table' = table]_vars

\* the second request in a row is a zero adjustment that has succeeded: the
\* count is the one it read, the record carries its updated_by and the
\* creator's created_by
C12_Witness ==
  \E p \in Procs :
    /\ nops = 2
    /\ \A q \in Procs : q # p => calls[q].pc = "idle"
    /\ calls[p].op = "UpdateInventory" /\ calls[p].pc = "done" /\ calls[p].code = "OK"
    /\ calls[p].req.QuantityChange = 0
    /\ calls[p].previousCount = 20
    /\ StoredCount(table, CallKey(calls[p])) = 20
    /\ calls[p].item.UpdatedBy = calls[p].req.By
    /\ UnmarshalMap(table[CallKey(calls[p])]).CreatedBy # calls[p].req.By

\* the requests the boundary validation is to refuse
SingleItemOps == {"GetItem", "UpdateItem", "DeleteItem", "UpdateInventory"}

InvalidInput(op, req) ==
  \/ req.TenantId <= 0
  \/ op \in SingleItemOps /\ req.Id = 0
  \/ op \in {"CreateItem", "UpdateItem"} /\ (req.Name = "" \/ req.Price < 0)

\* C13: a request with tenant_id <= 0, with an empty item id (single-item
\* operations), or with an empty name or a negative price (create, update) is
\* answered InvalidArgument at once: the call never stands at a store step, has
\* written nothing, carries no item, and the table is as it was.
C13_ValidationPrecedesStore ==
  [][\A p \in Procs :
       (Free(p) /\ calls'[p] # calls[p] /\ InvalidInput(calls'[p].op, calls'[p].received))
       => /\ calls'[p].pc = "done"
          /\ calls'[p].code = "InvalidArgument"
          /\ calls'[p].wrote = 0
          /\ calls'[p].item = EmptyItem
          /\ calls'[p].items = <<>>
          /\ table' = table
          /\ generated' = generated]_vars

\* an update with a negative price of an item that is stored has been refused
C13_Witness ==
  \E p \in Procs :
    /\ calls[p].op = "UpdateItem" /\ calls[p].pc = "done"
    /\ calls[p].code = "InvalidArgument"
    /\ calls[p].received.Price < 0
    /\ calls[p].received.TenantId > 0 /\ calls[p].received.Id # 0
    /\ CallKey(calls[p]) \in DOMAIN table
    /\ UnmarshalMap(table[CallKey(calls[p])]).Price >= 0

\* C14 (as claimed): a single-item call with valid input whose first store
\* step finds no record at its key, the backing store answering, ends there
\* with NotFound and writes nothing.
C14_MissingItemNotFound ==
  [][\A p \in Procs :
       LET c == calls[p]
       IN (/\ c.op \in SingleItemOps
           /\ c.pc \in {"get", "update", "delete", "read"}
           /\ calls'[p] # c
           /\ CallKey(c) \notin DOMAIN table
           /\ calls'[p].code # "Internal")
          => /\ calls'[p].pc = "done"
             /\ calls'[p].code = "NotFound"
             /\ table' = table]_vars

\* C15: a finished request has exactly one of four statuses: InvalidArgument
\* exactly when the boundary validation refuses it, NotFound exactly when the
\* store returned ItemNotFound, Internal exactly for every other store error
\* (insufficient inventory included), OK otherwise; it carries a response
\* message exactly when the status is OK.
C15_StatusMapping ==
  \A p \in Procs :
    LET c == calls[p]
    IN c.pc = "done"
       => /\ c.code \in {"OK", "InvalidArgument", "NotFound", "Internal"}
          /\ c.code = "InvalidArgument" <=> InvalidInput(c.op, c.received)
          /\ c.code = "InvalidArgument" => c.err = "none"
          /\ c.code = "NotFound" <=> c.err = "ErrItemNotFound"
          /\ c.code = "Internal" <=> c.err \notin {"none", "ErrItemNotFound"}
          /\ c.code = "OK" <=> Response(c) # NoResponse
          /\ c.code # "OK" => c.item = EmptyItem /\ c.items = <<>>

\* an adjustment below zero has been answered Internal, with no response
C15_Witness ==
  \E p \in Procs :
    /\ calls[p].op = "UpdateInventory" /\ calls[p].pc = "done"
    /\ calls[p].err = "insufficient inventory"
    /\ calls[p].code = "Internal"
    /\ calls[p].previousCount > 0
    /\ Response(calls[p]) = NoResponse

\* C16 (as claimed): the response of an UpdateInventory request rejected for
\* insufficient inventory carries the previous_count the store returned.
C16_DualReturnReachesCaller ==
  \A p \in Procs :
    LET c == calls[p]
    IN (c.op = "UpdateInventory" /\ c.pc = "done" /\ c.err = "insufficient inventory")
       => /\ Response(c) # NoResponse
          /\ Response(c).PreviousCount = c.previousCount

\* C17 (as claimed): a store operation that returns an error returns the empty
\* item, and a non-zero previous_count with it only when the error is the
\* insufficient-inventory rejection.
C17_NoPartialResults ==
  \A p \in Procs :
    LET c == calls[p]
    IN (c.pc = "done" /\ c.err # "none")
       => /\ c.item = EmptyItem
          /\ c.items = <<>>
          /\ c.previousCount # 0 => c.err = "insufficient inventory"

\* C18: the page size the handler passes to the store's ListItems is 100 when
\* the request's page_size is <= 0, 1000 when it is > 1000 and the page_size
\* itself otherwise: always within 1..1000.
C18_PageSizeClamped ==
  \A p \in Procs :
    LET c == calls[p]
        n == c.received.PageSize
    IN (c.op = "ListItems" /\ c.code # "InvalidArgument")
       => /\ n <= 0 => c.req.PageSize = 100
          /\ n > 1000 => c.req.PageSize = 1000
          /\ (n >= 1 /\ n <= 1000) => c.req.PageSize = n
          /\ c.req.PageSize \in 1..1000

\* the largest int32 page size has been served with the cap: both records of
\* the tenant are returned
C18_Witness ==
  \E p \in Procs :
    /\ calls[p].op = "ListItems" /\ calls[p].pc = "done" /\ calls[p].code = "OK"
    /\ calls[p].received.PageSize = MaxInt32
    /\ calls[p].req.PageSize = 1000
    /\ Len(calls[p].items) = 2

\* C19 (as claimed): every stored record that CreateItem created has
\* updated_at >= created_at.
C19_UpdatedNotBeforeCreated ==
  \A k \in generated :
    (k \in DOMAIN table /\ Decodable(table[k]))
    => UnmarshalMap(table[k]).UpdatedAt >= UnmarshalMap(table[k]).CreatedAt

\* C20 (as claimed): the write of an UpdateItem on an existing item leaves a
\* record whose name, description, price, category, status, sku,
\* inventory_count, tags and updated_by are the submitted ones and whose
\* item_id, tenant_id, created_at and created_by are the previous ones; the
\* re-read, the backing store answering, returns that record.
C20_FullReplace ==
  [][\A p \in Procs :
       LET c == calls[p]
           k == CallKey(c)
       IN /\ (/\ c.pc = "update" /\ calls'[p].pc = "reread"
               /\ k \in DOMAIN table /\ Decodable(table[k]))
             => /\ k \in DOMAIN table' /\ Decodable(table'[k])
                /\ LET old == UnmarshalMap(table[k])
                       new == UnmarshalMap(table'[k])
                   IN /\ new.Name = c.req.Name
                      /\ new.Description = c.req.Description
                      /\ new.Price = c.req.Price
                      /\ new.Category = c.req.Category
                      /\ new.Status = c.req.Status
                      /\ new.SKU = c.req.Sku
                      /\ new.InventoryCount = c.req.InventoryCount
                      /\ new.Tags = c.req.Tags
                      /\ new.UpdatedBy = c.req.By
                      /\ new.ItemID = old.ItemID
                      /\ new.TenantID = old.TenantID
                      /\ new.CreatedAt = old.CreatedAt
                      /\ new.CreatedBy = old.CreatedBy
          /\ (/\ c.op = "UpdateItem" /\ c.pc = "reread" /\ calls'[p].pc = "done"
               /\ calls'[p].err = "none")
             => /\ calls'[p].item = UnmarshalMap(table[k])
                /\ table' = table]_vars

\* what ListItems may return for a request on a table: one result for each
\* answer of the backing store
ListItemsResults(tbl, req) ==
  {ListItemsResult(DynamoQuery(tbl, req.TenantId, req.PageToken, req.PageSize, lekAtEnd),
                   req.Category, req.Status) : lekAtEnd \in BOOLEAN}

\* C21: what a successful ListItems returns is what it may return for the same
\* request with an empty search_query: items, next_page_token and
\* returned_count do not depend on search_query.
C21_SearchQueryNoOp ==
  [][\A p \in Procs :
       (calls[p].pc = "query" /\ calls'[p].pc = "done" /\ calls'[p].err = "none")
       => \E r \in ListItemsResults(table, [calls[p].req EXCEPT !.SearchQuery = ""]) :
            /\ calls'[p].items = r.items
            /\ calls'[p].nextPageToken = r.nextPageToken
            /\ calls'[p].totalCount = r.totalCount]_vars

\* a listing with a search query that names no stored item has returned items
C21_Witness ==
  \E p \in Procs :
    /\ calls[p].op = "ListItems" /\ calls[p].pc = "done" /\ calls[p].code = "OK"
    /\ calls[p].received.SearchQuery = "no such item"
    /\ Len(calls[p].items) = 2
    /\ \A j \in 1..2 : calls[p].items[j].Name # calls[p].received.SearchQuery

\* the order of sort keys: the empty string comes first, "ITEM#<id>" are in
\* the order of their ids
SortKeyLess(a, b) == b # <<>> /\ (a = <<>> \/ a[2] < b[2])

\* C22: a non-empty next_page_token is the SK attribute of the last record of
\* the fetched page, and it is greater in sort-key order than the page_token
\* of the request: fed into the next call, the tokens strictly increase.
C22_MonotonicPageTokens ==
  [][\A p \in Procs :
       (calls[p].pc = "query" /\ calls'[p].pc = "done" /\ calls'[p].nextPageToken # <<>>)
       => LET page == FetchedPage(table, calls[p].req)
          IN /\ Len(page) >= 1
             /\ calls'[p].nextPageToken = page[Len(page)].SK[2]
             /\ SortKeyLess(calls[p].req.PageToken, calls'[p].nextPageToken)]_vars

\* a page of two records fetched after the token of the first record has
\* returned the token of the third, the last one fetched
C22_Witness ==
  \E p \in Procs :
    /\ calls[p].op = "ListItems" /\ calls[p].pc = "done" /\ calls[p].code = "OK"
    /\ calls[p].req.PageToken = SKOf(1)
    /\ calls[p].req.PageSize = 2
    /\ calls[p].nextPageToken = SKOf(3)

\* C23: the next_page_token of a successful ListItems is one the same request
\* without category and status filter may get: it does not depend on the
\* filters.
C23_TokenOfUnfilteredPage ==
  [][\A p \in Procs :
       (calls[p].pc = "query" /\ calls'[p].pc = "done" /\ calls'[p].err = "none")
       => \E lekAtEnd \in BOOLEAN :
            LET req == calls[p].req
                result == DynamoQuery(table, req.TenantId, req.PageToken, req.PageSize, lekAtEnd)
            IN /\ calls'[p].nextPageToken = NextPageToken(result.LastEvaluatedKey)
               /\ calls'[p].nextPageToken
                    \in {r.nextPageToken :
                           r \in ListItemsResults(table,
                                   [req EXCEPT !.Category = ItemCategoryUnspecified,
                                               !.Status = ItemStatusUnspecified])}]_vars

\* a filtered listing has returned no item and a non-empty token, though the
\* page it fetched holds decodable records
C23_Witness ==
  \E p \in Procs :
    /\ calls[p].op = "ListItems" /\ calls[p].pc = "done" /\ calls[p].code = "OK"
    /\ calls[p].req.Category # ItemCategoryUnspecified
    /\ calls[p].req.PageSize = 2
    /\ calls[p].items = <<>>
    /\ calls[p].totalCount = 0
    /\ calls[p].nextPageToken # <<>>
    /\ \A j \in 1..2 : Decodable(FetchedPage(table, calls[p].req)[j])

\* the decodable items of the tenant that pass the filters of a request, in
\* ascending sort-key order
RECURSIVE MatchingItems(_, _, _)
MatchingItems(tbl, req, ids) ==
  IF ids = <<>> THEN <<>>
  ELSE LET av == tbl[KeyOf(req.TenantId, Head(ids))]
           rest == MatchingItems(tbl, req, Tail(ids))
       IN IF PassesFilters(av, req) THEN <<UnmarshalMap(av)>> \o rest ELSE rest

\* the traversal has come to its end: a response without a token
TraversalEnded(p) ==
  calls[p].op = "ListItems" /\ calls[p].pc = "done" /\ calls[p].nextPageToken = <<>>

\* C24: a traversal comes to an end, and when it ends with a successful call
\* the pages it has returned, one after the other, are the decodable items of
\* the tenant that pass the filters, each once, in ascending sort-key order.
C24_TraversalComplete ==
  /\ <>TraversalEnded(Serial)
  /\ [](\A p \in Procs :
          (TraversalEnded(p) /\ calls[p].code = "OK")
          => calls[p].seen \o calls[p].items
               = MatchingItems(table, calls[p].req,
                               Ascending(PartitionIds(table, calls[p].req.TenantId))))

\* a filtered traversal of three records with page_size 1 has ended on its
\* fourth call, an empty page, having returned two items on earlier pages
C24_Witness ==
  \E p \in Procs :
    /\ TraversalEnded(p) /\ calls[p].code = "OK"
    /\ calls[p].req.PageSize = 1
    /\ calls[p].req.Status # ItemStatusUnspecified
    /\ calls[p].req.PageToken = SKOf(3)
    /\ calls[p].items = <<>>
    /\ Len(calls[p].seen) = 2
    /\ Cardinality(PartitionIds(table, calls[p].req.TenantId)) = 3

\* C25: a ListItems whose fetched page holds records that do not decode, the
\* backing store answering, succeeds: it returns the other records of the page
\* that pass the filters, in page order, counts only those, and its token, when
\* there is one, is the sort key of the last record fetched, decodable or not.
C25_UndecodableSkipped ==
  [][\A p \in Procs :
       LET c == calls[p]
           page == FetchedPage(table, c.req)
       IN (/\ c.pc = "query" /\ calls'[p] # c
           /\ calls'[p].err # "failed to list items"
           /\ \E j \in 1..Len(page) : ~Decodable(page[j]))
          => LET kept == SelectSeq(page, LAMBDA av : PassesFilters(av, c.req))
             IN /\ calls'[p].pc = "done"
                /\ calls'[p].code = "OK"
                /\ calls'[p].items = [j \in 1..Len(kept) |-> UnmarshalMap(kept[j])]
                /\ calls'[p].totalCount = Len(kept)
                /\ calls'[p].totalCount < Len(page)
                /\ calls'[p].nextPageToken \in {<<>>, page[Len(page)].SK[2]}
                /\ Cardinality(ResumeIds(table, c.req)) > Len(page)
                   => calls'[p].nextPageToken = page[Len(page)].SK[2]]_vars

\* a page of two records, the first of which does not decode: the second is
\* returned alone, with its sort key as the token
C25_Witness ==
  \E p \in Procs :
    LET page == FetchedPage(table, calls[p].req)
    IN /\ calls[p].op = "ListItems" /\ calls[p].pc = "done" /\ calls[p].code = "OK"
       /\ Len(page) = 2
       /\ ~Decodable(page[1]) /\ Decodable(page[2])
       /\ calls[p].totalCount = 1
       /\ calls[p].items = <<UnmarshalMap(page[2])>>
       /\ calls[p].nextPageToken = page[2].SK[2]

\* the record holds the mutable fields an UpdateItem request writes
HoldsUpdate(av, req) ==
  LET it == UnmarshalMap(av)
  IN /\ Decodable(av)
     /\ it.Name = req.Name
     /\ it.Description = req.Description
     /\ it.Price = SprintfF(req.Price)
     /\ it.Category = req.Category
     /\ it.SKU = req.Sku
     /\ it.InventoryCount = req.InventoryCount
     /\ it.Tags = req.Tags
     /\ it.UpdatedBy = req.By

\* C26: an UpdateItem(status = s) and a DeleteItem race on an existing item and
\* nothing else writes it.  Once both have written, the status is discontinued
\* if the step was the DeleteItem's write, s if it was the UpdateItem's; the
\* name, description, price, category, sku, inventory_count, tags and
\* updated_by are those the UpdateItem wrote; updated_at is the last writer's;
\* and no later step of the two calls changes the record.
C26_UpdateRacingDelete ==
  [][\A u, d \in Procs :
       LET k == CallKey(calls'[u])
       IN (/\ calls'[u].op = "UpdateItem" /\ calls'[d].op = "DeleteItem"
           /\ calls'[u].wrote = 1 /\ calls'[d].wrote = 1
           /\ \A q \in Procs : calls'[q].op = "UpdateInventory" => calls'[q].wrote = 0)
          => /\ HoldsUpdate(table'[k], calls'[u].req)
             /\ UnmarshalMap(table'[k]).Status \in {ItemStatusDiscontinued, calls'[u].req.Status}
             /\ calls[d].wrote = 0
                => /\ UnmarshalMap(table'[k]).Status = ItemStatusDiscontinued
                   /\ UnmarshalMap(table'[k]).UpdatedAt = FormatRFC3339(calls[d].now)
             /\ calls[u].wrote = 0
                => /\ UnmarshalMap(table'[k]).Status = calls[u].req.Status
                   /\ UnmarshalMap(table'[k]).UpdatedAt = FormatRFC3339(calls[u].now)
             /\ (calls[u].wrote = 1 /\ calls[d].wrote = 1) => table' = table]_vars

\* both have succeeded, the UpdateItem with status inactive; the DeleteItem
\* wrote last: the record is discontinued and carries the update's name
C26_Witness ==
  \E u, d \in Procs :
    /\ calls[u].op = "UpdateItem" /\ calls[u].pc = "done" /\ calls[u].code = "OK"
    /\ calls[d].op = "DeleteItem" /\ calls[d].pc = "done" /\ calls[d].code = "OK"
    /\ calls[u].req.Status = ItemStatusInactive
    /\ calls[u].item.Status = ItemStatusInactive
    /\ UnmarshalMap(table[CallKey(calls[u])]).Status = ItemStatusDiscontinued
    /\ UnmarshalMap(table[CallKey(calls[u])]).Name = calls[u].req.Name

\* C27 (as claimed): an UpdateInventory that reads count p from an existing
\* item, the backing store answering, fails with insufficient inventory
\* exactly when the integer p + quantity_change is negative; otherwise it goes
\* on with previous_count p, its write persists the integer
\* p + quantity_change, and its re-read returns the persisted count.
C27_InventoryArithmetic ==
  [][\A p \in Procs :
       LET c == calls[p]
           k == CallKey(c)
       IN /\ (/\ c.pc = "read" /\ calls'[p] # c
               /\ calls'[p].err # "failed to get item"
               /\ k \in DOMAIN table /\ Decodable(table[k]))
             => /\ calls'[p].err = "insufficient inventory"
                   <=> SumNegative(StoredCount(table, k), c.req.QuantityChange)
                /\ calls'[p].previousCount = StoredCount(table, k)
                /\ calls'[p].pc = "write" <=> calls'[p].err # "insufficient inventory"
          /\ (c.pc = "write" /\ calls'[p].pc = "reread")
             => StoredCount(table', k) = c.previousCount + c.req.QuantityChange
          /\ (c.op = "UpdateInventory" /\ c.pc = "reread" /\ calls'[p] # c
               /\ calls'[p].err = "none")
             => /\ calls'[p].previousCount = c.previousCount
                /\ calls'[p].item.InventoryCount = StoredCount(table, k)]_vars

\* C28: an UpdateInventory whose GetItem finds no record at its key ends
\* there: with ItemNotFound (status NotFound) when the backing store answers,
\* with the empty item and previous_count 0, without a write; the table is as
\* it was and a GetItem of the key still fails with ItemNotFound.
C28_MissingItemNoEffect ==
  [][\A p \in Procs :
       LET c == calls[p]
       IN (c.pc = "read" /\ calls'[p] # c /\ CallKey(c) \notin DOMAIN table)
          => /\ calls'[p].pc = "done"
             /\ calls'[p].err \in {"ErrItemNotFound", "failed to get item"}
             /\ calls'[p].err = "ErrItemNotFound" => calls'[p].code = "NotFound"
             /\ calls'[p].item = EmptyItem
             /\ calls'[p].previousCount = 0
             /\ calls'[p].wrote = 0
             /\ table' = table
             /\ GetItemResult(table', c.req.TenantId, c.req.Id, TRUE).err
                  = "ErrItemNotFound"]_vars

\* the second of two requests, an adjustment of an item that does not exist,
\* has been answered NotFound with no response
C28_Witness ==
  \E p \in Procs :
    /\ nops = 2
    /\ calls[p].op = "UpdateInventory" /\ calls[p].pc = "done"
    /\ calls[p].code = "NotFound"
    /\ calls[p].req.QuantityChange > 0
    /\ CallKey(calls[p]) \notin DOMAIN table
    /\ Response(calls[p]) = NoResponse

\* the records a table holds in the partition "TENANT#<tenantID>"
TenantPartition(tbl, tenantID) ==
  [k \in {k \in DOMAIN tbl : k[1] = <<"TENANT#", tenantID>>} |-> tbl[k]]

\* C29: a store step of a call made with tenant T leaves the partition of every
\* other tenant as it was, and what it returns and what it writes are what the
\* same step returns and writes on a table holding T's partition alone: a
\* GetItem (alone, or as the read or re-read of an update or an adjustment)
\* answers from T's record at the key, a ListItems with any filters and any
\* page token answers a page of T's partition, and a write puts in T's
\* partition what it would put there were the other partitions empty.
C29_TenantIsolation ==
  [][\A p \in Procs :
       LET c == calls[p]
           d == calls'[p]
           T == c.req.TenantId
           own == TenantPartition(table, T)
       IN (c.pc \notin {"idle", "done"} /\ d # c)
          => /\ \A T2 \in (0..MaxTenant) \ {T} :
                  TenantPartition(table', T2) = TenantPartition(table, T2)
             /\ c.pc \in {"get", "reread"}
                => \E ok \in BOOLEAN :
                     LET r == GetItemResult(own, T, c.req.Id, ok)
                     IN d.item = r.item /\ d.err = r.err
             /\ c.pc = "read"
                => \E ok \in BOOLEAN :
                     LET r == GetItemResult(own, T, c.req.Id, ok)
                     IN IF r.err # "none" THEN d.err = r.err /\ d.pc = "done"
                        ELSE d.previousCount = r.item.InventoryCount
             /\ (c.pc = "query" /\ d.err = "none")
                => \E r \in ListItemsResults(own, c.req) :
                     /\ d.items = r.items
                     /\ d.nextPageToken = r.nextPageToken
                     /\ d.totalCount = r.totalCount
             /\ (c.pc = "put" /\ d.wrote = 1)
                => TenantPartition(table', T) = DynamoPutItem(own, MarshalMap(d.item))
             /\ (c.pc = "update" /\ d.wrote = 1)
                => TenantPartition(table', T)
                     = DynamoUpdateItem(own, CallKey(c), UpdateItemSets(c.req, c.now))
             /\ (c.pc = "delete" /\ d.wrote = 1)
                => TenantPartition(table', T) = DeleteItemWrite(own, CallKey(c), c.now)
             /\ (c.pc = "write" /\ d.wrote = 1)
                => TenantPartition(table', T)
                     = UpdateInventoryWriteTable(own, CallKey(c), c, c.now)]_vars

\* an UpdateItem of tenant 1 with the id of an item of tenant 2 has succeeded:
\* it wrote a record in its own partition, and the item of tenant 2 is as it
\* was created
C29_Witness ==
  \E p \in Procs, i \in ItemIds :
    /\ calls[p].op = "UpdateItem" /\ calls[p].pc = "done" /\ calls[p].err = "none"
    /\ calls[p].req.TenantId = 1 /\ calls[p].req.Id = i
    /\ KeyOf(2, i) \in generated
    /\ KeyOf(1, i) \in DOMAIN table /\ KeyOf(1, i) \notin generated
    /\ table[KeyOf(2, i)].UpdatedAt = table[KeyOf(2, i)].CreatedAt
    /\ table[KeyOf(2, i)].Name[2] # calls[p].req.Name

\* every record but the one at key k is the same before and after the step
OthersUnchanged(k) ==
  \A k2 \in ((DOMAIN table) \cup (DOMAIN table')) \ {k} :
    k2 \in DOMAIN table /\ k2 \in DOMAIN table' /\ table'[k2] = table[k2]

\* C30: the write of an UpdateInventory changes at most inventory_count,
\* updated_at and updated_by of its target record, and the write of a
\* DeleteItem at most status and updated_at of an existing target record;
\* every other attribute of the target and every other record are as they
\* were.  So, a DeleteItem and an UpdateInventory interleaved on one item:
\* once the delete has written the status stays discontinued, and once the
\* adjustment has written the count stays the one it wrote.
C30_PartialUpdatesFrame ==
  [][\A p \in Procs :
       LET c == calls[p]
           d == calls'[p]
           k == CallKey(c)
       IN /\ (c.pc = "write" /\ d.wrote = 1)
             => /\ k \in DOMAIN table
                /\ SameExcept(table[k], table'[k], {"InventoryCount", "UpdatedAt", "UpdatedBy"})
                /\ OthersUnchanged(k)
          /\ (c.pc = "delete" /\ d.wrote = 1)
             => /\ k \in DOMAIN table
                   => SameExcept(table[k], table'[k], {"Status", "UpdatedAt"})
                /\ OthersUnchanged(k)
          /\ (d.op = "DeleteItem" /\ d.wrote = 1)
             => table'[CallKey(d)].Status = <<"N", ItemStatusDiscontinued>>
          /\ (d.op = "UpdateInventory" /\ d.wrote = 1)
             => table'[CallKey(d)].InventoryCount = <<"N", d.newCount>>]_vars

\* an adjustment of the stocked item read the count 20, then a DeleteItem of
\* the same item arrived and wrote, and the adjustment wrote too: the record
\* is discontinued with count 25, and the other item is as it was stored
C30_Witness ==
  \E a, d \in Procs :
    /\ calls[a].op = "UpdateInventory" /\ calls[a].pc = "reread" /\ calls[a].wrote = 1
    /\ calls[d].op = "DeleteItem" /\ calls[d].pc = "done" /\ calls[d].wrote = 1
    /\ CallKey(calls[a]) = KeyOf(1, 1) /\ CallKey(calls[d]) = KeyOf(1, 1)
    /\ calls[a].now < calls[d].now
    /\ UnmarshalMap(table[KeyOf(1, 1)]).Status = ItemStatusDiscontinued
    /\ UnmarshalMap(table[KeyOf(1, 1)]).InventoryCount = 25
    /\ UnmarshalMap(table[KeyOf(1, 1)]).UpdatedBy = "dave"
    /\ table[KeyOf(1, 2)] = MarshalMap(ShelvedItem)

====
